---- MODULE Spec2Model ----
(***************************************************************************)
(* A model of fetch_jira.py: the paginated fetch of the project's issues   *)
(* (fetch_jira_data), the platform classifier (detect_platform), the       *)
(* platform x status aggregation (build_dashboard_data) and the run        *)
(* (main) that writes data.json.                                           *)
(*                                                                         *)
(* Python strings are TLA+ strings; a JSON value is a tagged record, so    *)
(* that a key that is absent, a key whose value is null and a key with a   *)
(* value are three different inputs, as they are for dict.get.             *)
(***************************************************************************)
EXTENDS Integers, Sequences, FiniteSets, TLC

VARIABLES
    JIRA_EMAIL,           \* os.environ.get('JIRA_EMAIL', '')
    JIRA_API_TOKEN,       \* os.environ.get('JIRA_API_TOKEN', '')
    pc,                   \* where the run is
    network,              \* every HTTP request sent so far, in order
    replies,              \* the responses to the search requests, in order
    all_issues,           \* fetch_jira_data: the issues accumulated
    next_page_token,      \* fetch_jira_data: the token for the next request
    issues,               \* main / build_dashboard_data: the issues aggregated
    matrix,               \* build_dashboard_data: platform -> status -> count
    unmatched_platforms,  \* build_dashboard_data: BUG issues with no platform
    idx,                  \* build_dashboard_data: issues whose iteration completed
    platform,             \* the last value detect_platform returned
    data_json,            \* the content of the snapshot file data.json
    writes,               \* how many times data.json was opened for writing
    exit_code             \* the process's exit code once it has ended

vars == <<JIRA_EMAIL, JIRA_API_TOKEN, pc, network, replies, all_issues,
          next_page_token, issues, matrix, unmatched_platforms, idx, platform,
          data_json, writes, exit_code>>

(***************************************************************************)
(* Bounds of the model.                                                    *)
(***************************************************************************)
\* the most search requests one modelled run sends
MaxRequests == 3
\* the longest input of the aggregation runs
MaxIssues == 3

(***************************************************************************)
(* Module-level configuration.                                             *)
(***************************************************************************)
PROJECT_KEY == "VZY"

PLATFORMS == <<"ANDROID", "ATV", "CMS Adaptor", "CMS Dashboard", "DishIT",
               "IOS", "LG_TV", "SAM_TV", "WEB">>

STATUSES == <<"OPEN", "IN PROGRESS", "REOPENED", "IN REVIEW", "ISSUE ACCEPTED",
              "PARKED">>

Range(s) == {s[i] : i \in 1..Len(s)}

\* Python's None, where the value is otherwise a string
None == "None"

(***************************************************************************)
(* JSON values as the script reads them.                                   *)
(***************************************************************************)
Missing == [tag |-> "missing"]                 \* the key is absent
Null == [tag |-> "null"]                       \* the key is there, value null
Str(s) == [tag |-> "str", v |-> s]
List(xs) == [tag |-> "list", v |-> xs]
Named(n) == [tag |-> "named", name |-> n]      \* an object read through 'name'
Dict(value, name) == [tag |-> "dict", value |-> value, name |-> name]
Other == [tag |-> "other"]                     \* a number or true
Fields(status, issuetype, labels, components, summary, custom) ==
    [tag |-> "fields", status |-> status, issuetype |-> issuetype,
     labels |-> labels, components |-> components, summary |-> summary,
     custom |-> custom]
\* an issue without the key 'fields'
NoFields == Missing

\* issue.get('fields', {}): an absent 'fields' reads as the empty mapping
FieldsOf(issue) ==
    IF issue.tag = "missing"
    THEN Fields(Missing, Missing, Missing, Missing, Missing, <<>>)
    ELSE issue

(***************************************************************************)
(* str.upper() on ASCII text, ' '.join and the `in` test on strings.       *)
(***************************************************************************)
UpperChar(c) ==
    CASE c = "a" -> "A" [] c = "b" -> "B" [] c = "c" -> "C" [] c = "d" -> "D"
      [] c = "e" -> "E" [] c = "f" -> "F" [] c = "g" -> "G" [] c = "h" -> "H"
      [] c = "i" -> "I" [] c = "j" -> "J" [] c = "k" -> "K" [] c = "l" -> "L"
      [] c = "m" -> "M" [] c = "n" -> "N" [] c = "o" -> "O" [] c = "p" -> "P"
      [] c = "q" -> "Q" [] c = "r" -> "R" [] c = "s" -> "S" [] c = "t" -> "T"
      [] c = "u" -> "U" [] c = "v" -> "V" [] c = "w" -> "W" [] c = "x" -> "X"
      [] c = "y" -> "Y" [] c = "z" -> "Z" [] OTHER -> c

RECURSIVE Upper(_)
Upper(s) ==
    IF Len(s) = 0 THEN ""
    ELSE UpperChar(SubSeq(s, 1, 1)) \o Upper(SubSeq(s, 2, Len(s)))

RECURSIVE Join(_)
Join(parts) ==
    IF Len(parts) = 0 THEN ""
    ELSE IF Len(parts) = 1 THEN parts[1]
    ELSE parts[1] \o " " \o Join(Tail(parts))

\* pattern in text
Contains(pattern, text) ==
    \E i \in 1..(Len(text) - Len(pattern) + 1) :
        SubSeq(text, i, i + Len(pattern) - 1) = pattern

\* Python truthiness of a JSON value
Truthy(val) ==
    CASE val.tag = "missing" -> FALSE
      [] val.tag = "null" -> FALSE
      [] val.tag = "str" -> val.v # ""
      [] val.tag = "list" -> Len(val.v) > 0
      [] val.tag = "dict" -> ~(val.value.tag = "missing" /\ val.name.tag = "missing")
      [] OTHER -> TRUE

(***************************************************************************)
(* detect_platform                                                         *)
(***************************************************************************)
\* The outcome of a call: a returned value, or an exception
Returned(v) == [raised |-> FALSE, value |-> v]
Raised == [raised |-> TRUE]

\* fields.get('labels', []) and the names of fields.get('components', [])
LabelList(fields) ==
    IF fields.labels.tag = "missing" THEN <<>> ELSE fields.labels.v
ComponentList(fields) ==
    IF fields.components.tag = "missing" THEN <<>> ELSE fields.components.v

\* c.get('name', '')
NameOf(c) == IF c.name.tag = "missing" THEN Str("") ELSE c.name

\* val.get('value', '') or val.get('name', '')
ValueOrName(d) ==
    LET value == IF d.value.tag = "missing" THEN Str("") ELSE d.value
        name == IF d.name.tag = "missing" THEN Str("") ELSE d.name
    IN IF Truthy(value) THEN value ELSE name

\* the values one list-shaped custom field contributes
ListItems(items) ==
    LET kept == SelectSeq(items, LAMBDA item : item.tag \in {"str", "dict"})
    IN [i \in 1..Len(kept) |->
            IF kept[i].tag = "str" THEN kept[i] ELSE ValueOrName(kept[i])]

\* the values one custom field contributes
CustomItems(val) ==
    IF ~Truthy(val) THEN <<>>
    ELSE CASE val.tag = "str" -> <<val>>
           [] val.tag = "dict" -> <<ValueOrName(val)>>
           [] val.tag = "list" -> ListItems(val.v)
           [] OTHER -> <<>>

RECURSIVE CustomVals(_)
CustomVals(custom) ==
    IF Len(custom) = 0 THEN <<>>
    ELSE CustomItems(Head(custom)) \o CustomVals(Tail(custom))

\* Building the search string raises on a null 'labels' or 'components' (a
\* loop over None) and on a label, component name or custom value that is
\* not a string (None.upper()).
SearchTextRaises(issue) ==
    LET fields == FieldsOf(issue)
    IN \/ fields.labels.tag \notin {"missing", "list"}
       \/ \E i \in 1..Len(LabelList(fields)) : LabelList(fields)[i].tag # "str"
       \/ fields.components.tag \notin {"missing", "list"}
       \/ \E i \in 1..Len(ComponentList(fields)) :
              NameOf(ComponentList(fields)[i]).tag # "str"
       \/ \E i \in 1..Len(CustomVals(fields.custom)) :
              CustomVals(fields.custom)[i].tag # "str"

\* all_text, on an issue for which SearchTextRaises is false
all_text(issue) ==
    LET fields == FieldsOf(issue)
        labels == [i \in 1..Len(LabelList(fields)) |-> Upper(LabelList(fields)[i].v)]
        components == [i \in 1..Len(ComponentList(fields)) |->
                          Upper(NameOf(ComponentList(fields)[i]).v)]
        summary == IF Truthy(fields.summary) /\ fields.summary.tag = "str"
                   THEN Upper(fields.summary.v) ELSE ""
        cv == CustomVals(fields.custom)
        custom_vals == [i \in 1..Len(cv) |-> Upper(cv[i].v)]
    IN Join(labels \o components \o custom_vals \o <<summary>>)

Rule(p, patterns) == [platform |-> p, patterns |-> patterns]

platform_patternsSwapped ==
    << Rule("CMS Adaptor", <<"CMS ADAPTOR", "CMS_ADAPTOR", "CMSADAPTOR">>),
       Rule("CMS Dashboard", <<"CMS DASHBOARD", "CMS_DASHBOARD", "CMSDASHBOARD">>),
       Rule("DishIT", <<"DISHIT", "DISH IT", "DISH_IT">>),
       Rule("LG_TV", <<"LG_TV", "LGTV", "LG TV", "WEBOS", "LG-TV">>),
       Rule("SAM_TV", <<"SAM_TV", "SAMTV", "SAM TV", "SAMSUNG TV", "SAMSUNG_TV",
                        "TIZEN", "SAM-TV">>),
       Rule("ANDROID", <<"ANDROID">>),
       Rule("ATV", <<"ATV", "ANDROID TV", "ANDROID_TV", "ANDROIDTV", "FIRE TV",
                     "FIRETV", "FIRE_TV">>),
       Rule("IOS", <<"IOS", "APPLE", "IPHONE", "IPAD">>),
       Rule("WEB", <<"WEB">>) >>

\* the rule table, in the order the dict literal gives
platform_patterns ==
    << Rule("CMS Adaptor", <<"CMS ADAPTOR", "CMS_ADAPTOR", "CMSADAPTOR">>),
       Rule("CMS Dashboard", <<"CMS DASHBOARD", "CMS_DASHBOARD", "CMSDASHBOARD">>),
       Rule("DishIT", <<"DISHIT", "DISH IT", "DISH_IT">>),
       Rule("LG_TV", <<"LG_TV", "LGTV", "LG TV", "WEBOS", "LG-TV">>),
       Rule("SAM_TV", <<"SAM_TV", "SAMTV", "SAM TV", "SAMSUNG TV", "SAMSUNG_TV",
                        "TIZEN", "SAM-TV">>),
       Rule("ATV", <<"ATV", "ANDROID TV", "ANDROID_TV", "ANDROIDTV", "FIRE TV",
                     "FIRETV", "FIRE_TV">>),
       Rule("ANDROID", <<"ANDROID">>),
       Rule("IOS", <<"IOS", "APPLE", "IPHONE", "IPAD">>),
       Rule("WEB", <<"WEB">>) >>

\* the two nested loops over the table: the first rule with a pattern in text
RECURSIVE ScanRules(_, _)
ScanRules(text, i) ==
    IF i > Len(platform_patterns) THEN None
    ELSE IF \E j \in 1..Len(platform_patterns[i].patterns) :
                Contains(platform_patterns[i].patterns[j], text)
         THEN platform_patterns[i].platform
         ELSE ScanRules(text, i + 1)

detect_platform(issue) ==
    IF SearchTextRaises(issue) THEN Raised
    ELSE Returned(ScanRules(all_text(issue), 1))

(***************************************************************************)
(* build_dashboard_data                                                    *)
(***************************************************************************)
\* how many unmatched bugs are printed as examples
UnmatchedLogLimit == 5

ZeroMatrixShort ==
    [p \in Range(PLATFORMS) \ {"WEB"} |-> [s \in Range(STATUSES) |-> 0]]

\* the matrix after its initialisation: every platform x every status at 0
ZeroMatrix == [p \in Range(PLATFORMS) |-> [s \in Range(STATUSES) |-> 0]]

\* fields.get(key, {}).get('name', ''): a string, or Null for None
NameField(obj) ==
    IF obj.tag = "missing" THEN Str("")
    ELSE IF obj.name.tag = "missing" THEN Str("") ELSE obj.name

IsBugAnyType(issue_type) == TRUE

\* issue_type.upper() == 'BUG'
IsBug(issue_type) == Upper(issue_type) = "BUG"

\* status_upper in STATUSES
IsTracked(status_upper) == status_upper \in Range(STATUSES)

IncrementTwice(m, p, s) == [m EXCEPT ![p][s] = @ + 2]

\* matrix[platform][status_upper] += 1
Increment(m, p, s) == [m EXCEPT ![p][s] = @ + 1]

\* The statements of an iteration before the type test raise on a null
\* 'status' or 'issuetype' (None.get), a null 'labels' (set.update(None)), a
\* null 'components' (a loop over None), when detect_platform raises, and on
\* a null status or type name (None.upper()).
IterationRaisesEarly(issue) ==
    LET fields == FieldsOf(issue)
    IN \/ fields.status.tag = "null"
       \/ fields.issuetype.tag = "null"
       \/ fields.labels.tag = "null"
       \/ fields.components.tag = "null"
       \/ detect_platform(issue).raised
       \/ NameField(fields.status).tag # "str"
       \/ NameField(fields.issuetype).tag # "str"

\* fields.get('summary', '')[:60] raises on a null summary
SummarySliceRaises(fields) == fields.summary.tag = "null"

Outcome(r, m, u, p) == [raised |-> r, matrix |-> m, unmatched |-> u, platform |-> p]

\* One iteration of the loop over the issues, from matrix m and counter u:
\* whether it raised, and the matrix, the counter and the platform after it.
ProcessIssue(m, u, issue) ==
    IF IterationRaisesEarly(issue) THEN Outcome(TRUE, m, u, None)
    ELSE
      LET fields == FieldsOf(issue)
          status_name == NameField(fields.status).v
          issue_type == NameField(fields.issuetype).v
          p == detect_platform(issue).value
          status_upper == Upper(status_name)
      IN IF IsBug(issue_type)
         THEN IF p # None /\ IsTracked(status_upper)
              THEN Outcome(FALSE, Increment(m, p, status_upper), u, p)
              ELSE IF p = None
                   THEN IF u + 1 <= UnmatchedLogLimit /\ SummarySliceRaises(fields)
                        THEN Outcome(TRUE, m, u + 1, p)
                        ELSE Outcome(FALSE, m, u + 1, p)
                   ELSE Outcome(FALSE, m, u, p)
         ELSE Outcome(FALSE, m, u, p)

\* the whole loop as a function of its input: the outcome of the first
\* iteration that raises, or the outcome after the last one
RECURSIVE RunLoop(_, _, _)
RunLoop(m, u, rest) ==
    IF Len(rest) = 0 THEN Outcome(FALSE, m, u, None)
    ELSE LET r == ProcessIssue(m, u, Head(rest))
         IN IF r.raised THEN r ELSE RunLoop(r.matrix, r.unmatched, Tail(rest))

(***************************************************************************)
(* The HTTP exchange.                                                      *)
(***************************************************************************)
\* no 'nextPageToken' key in the payload
Absent == "absent"

PageSize == 100

ProjectRequest == [method |-> "GET", path |-> "/rest/api/3/project"]

OffsetSearchRequest(token) ==
    [method |-> "GET", path |-> "/rest/api/3/search", maxResults |-> PageSize,
     nextPageToken |-> Absent]

\* the payload of one page request: the token only when there is one
SearchRequest(token) ==
    [method |-> "POST", path |-> "/rest/api/3/search/jql", maxResults |-> PageSize,
     nextPageToken |-> IF token \notin {None, ""} THEN token ELSE Absent]

RaiseForStatusNever(status) == FALSE

\* response.raise_for_status()
RaiseForStatus(status) == status >= 400 /\ status < 600

BreakOnlyWhenBoth(token, page) == token \in {None, ""} /\ Len(page) = 0

\* if not next_page_token or len(issues) == 0: break
LoopBreaks(token, page) == token \in {None, ""} \/ Len(page) = 0

CredentialsMissingBoth(email, api_token) == email = "" /\ api_token = ""

\* if not JIRA_EMAIL or not JIRA_API_TOKEN
CredentialsMissing(email, api_token) == email = "" \/ api_token = ""

\* data.json as the previous run left it
OldSnapshot ==
    [data |-> ZeroMatrix, updated_at |-> "yesterday", total_issues_fetched |-> 0,
     project |-> PROJECT_KEY]

\* the output main builds and dumps
Output(m, fetched) ==
    [data |-> m, updated_at |-> "today", total_issues_fetched |-> Len(fetched),
     project |-> PROJECT_KEY]

(***************************************************************************)
(* The inputs the runs draw from.                                          *)
(***************************************************************************)
BoundedSeq(S, n) == UNION {[1..k -> S] : k \in 0..n}

\* a Bug, status Open, whose only signal is the label webos
BugWebosOpen ==
    Fields(Named(Str("Open")), Named(Str("Bug")), List(<<Str("webos")>>),
           List(<<>>), Str("Player freezes"), <<>>)
\* a Bug in a status outside STATUSES, component Android TV
BugAtvDone ==
    Fields(Named(Str("Done")), Named(Str("Bug")), Missing,
           List(<<Named(Str("Android TV"))>>), Str("Crash on start"), <<>>)
\* a Bug with no recognizable pattern anywhere
BugUnknownDevice ==
    Fields(Named(Str("In Progress")), Named(Str("Bug")),
           List(<<Str("unknown-device")>>), List(<<>>), Str("Login fails"), <<>>)
\* a Bug with no recognizable pattern and a null summary
BugNullSummary ==
    Fields(Named(Str("Open")), Named(Str("Bug")), List(<<>>), List(<<>>), Null, <<>>)
\* lower-case type and status, platform in a custom field only
BugIpadReopened ==
    Fields(Named(Str("reopened")), Named(Str("bug")), Missing, Missing, Missing,
           <<Other, Dict(Str("iPad"), Missing)>>)
\* not a Bug, though platform and status would count
TaskWebOpen ==
    Fields(Named(Str("Open")), Named(Str("Task")), List(<<>>), List(<<>>),
           Str("Web checkout"), <<>>)

AggIssues ==
    {BugWebosOpen, BugAtvDone, BugUnknownDevice, BugNullSummary, BugIpadReopened,
     TaskWebOpen, NoFields}

\* the issues of the permutation runs, in a fixed order
PermIssues == <<BugWebosOpen, BugUnknownDevice, BugNullSummary>>

\* the pages a search response of the modelled server carries
Pages ==
    {<<>>, <<BugWebosOpen>>, <<BugNullSummary>>, <<BugAtvDone, BugUnknownDevice>>}

Tokens == {None, "", "t1", "t2"}

Reply(status, json_ok, page, token) ==
    [status |-> status, json_ok |-> json_ok, issues |-> page, nextPageToken |-> token]

\* What the server may answer to a search request: a success with any page
\* (or no 'issues' key) and any token, or a failure. json_ok is false when
\* the body is not JSON, and response.json() raises.
Replies ==
    {Reply(200, TRUE, List(pg), t) : pg \in Pages, t \in Tokens}
    \cup {Reply(200, TRUE, Missing, t) : t \in Tokens}
    \cup {Reply(st, j, Missing, None) : st \in {200, 401, 500}, j \in BOOLEAN}

\* data.get('issues', [])
PageOf(reply) == IF reply.issues.tag = "missing" THEN <<>> ELSE reply.issues.v

\* one search request failed: the body is not JSON, or the status is an error
ReplyRaises(reply) == ~reply.json_ok \/ RaiseForStatus(reply.status)

\* the issues detect_platform is called on directly
ClassifyLabels ==
    {Missing, Null, List(<<>>), List(<<Str("WEBOS")>>), List(<<Str("Android TV")>>),
     List(<<Str("android")>>), List(<<Str("unknown-device")>>),
     List(<<Str("LG"), Str("TV")>>), List(<<Str("webapp"), Str("cms_dashboard")>>)}
ClassifyComponents ==
    {Missing, List(<<Named(Missing)>>), List(<<Named(Str("Web"))>>),
     List(<<Named(Str("DishIT")), Named(Str("iOS"))>>), List(<<Named(Null)>>)}
ClassifyCustom ==
    {<<>>, <<Str("Tizen")>>, <<Dict(Str("Fire TV"), Missing)>>,
     <<Dict(Missing, Str("cmsadaptor"))>>, <<Dict(Str(""), Missing)>>,
     <<Other, List(<<Str("apple"), Dict(Missing, Missing), Other>>)>>,
     <<Dict(Missing, Null)>>}
ClassifySummaries ==
    {Missing, Null, Str(""), Str("Crash on Samsung TV"), Str("tv remote")}

ClassifyIssues ==
    {Fields(Named(Str("Open")), Named(Str("Bug")), l, c, s, cf) :
        l \in ClassifyLabels, c \in ClassifyComponents, s \in ClassifySummaries,
        cf \in ClassifyCustom}

(***************************************************************************)
(* The actions: main, fetch_jira_data and build_dashboard_data.            *)
(***************************************************************************)
\* main checks the credentials, and exits with 1 when one is empty
Main ==
    /\ pc = "main"
    /\ IF CredentialsMissing(JIRA_EMAIL, JIRA_API_TOKEN)
       THEN pc' = "exited" /\ exit_code' = <<1>>
       ELSE pc' = "projects" /\ UNCHANGED exit_code
    /\ UNCHANGED <<JIRA_EMAIL, JIRA_API_TOKEN, network, replies, all_issues,
                   next_page_token, issues, matrix, unmatched_platforms, idx,
                   platform, data_json, writes>>

\* main lists the accessible projects; whatever the answer (a list, an error
\* status, an exception) it is printed and the run goes on
ListProjects ==
    /\ pc = "projects"
    /\ \E answer \in {"ok", "error_status", "exception"} :
          network' = Append(network, ProjectRequest)
    /\ pc' = "fetch"
    /\ UNCHANGED <<JIRA_EMAIL, JIRA_API_TOKEN, replies, all_issues, next_page_token,
                   issues, matrix, unmatched_platforms, idx, platform, data_json,
                   writes, exit_code>>

\* fetch_jira_data up to its loop
FetchStart ==
    /\ pc = "fetch"
    /\ all_issues' = <<>>
    /\ next_page_token' = None
    /\ pc' = "page"
    /\ UNCHANGED <<JIRA_EMAIL, JIRA_API_TOKEN, network, replies, issues, matrix,
                   unmatched_platforms, idx, platform, data_json, writes, exit_code>>

\* One iteration of the loop of fetch_jira_data: the request, the response,
\* and either the exception that ends the run, or the page added and the
\* loop continued, or the break and the return to main.
FetchPage ==
    /\ pc = "page"
    /\ Len(replies) < MaxRequests
    /\ \E reply \in Replies :
          /\ network' = Append(network, SearchRequest(next_page_token))
          /\ replies' = Append(replies, reply)
          /\ IF ReplyRaises(reply)
             THEN /\ pc' = "raised"
                  /\ exit_code' = <<1>>
                  /\ UNCHANGED <<all_issues, next_page_token, issues>>
             ELSE /\ all_issues' = all_issues \o PageOf(reply)
                  /\ next_page_token' = reply.nextPageToken
                  /\ IF LoopBreaks(reply.nextPageToken, PageOf(reply))
                     THEN pc' = "build" /\ issues' = all_issues'
                     ELSE pc' = "page" /\ UNCHANGED issues
                  /\ UNCHANGED exit_code
    /\ UNCHANGED <<JIRA_EMAIL, JIRA_API_TOKEN, matrix, unmatched_platforms, idx,
                   platform, data_json, writes>>

\* build_dashboard_data up to its loop
BuildInit ==
    /\ pc = "build"
    /\ matrix' = ZeroMatrix
    /\ unmatched_platforms' = 0
    /\ idx' = 0
    /\ pc' = "loop"
    /\ UNCHANGED <<JIRA_EMAIL, JIRA_API_TOKEN, network, replies, all_issues,
                   next_page_token, issues, platform, data_json, writes, exit_code>>

\* One iteration of the loop over the issues. The seen_* sets it also fills
\* are only printed after the loop, and are not part of the state here.
BuildStep ==
    /\ pc = "loop"
    /\ idx < Len(issues)
    /\ LET r == ProcessIssue(matrix, unmatched_platforms, issues[idx + 1])
       IN /\ matrix' = r.matrix
          /\ unmatched_platforms' = r.unmatched
          /\ platform' = r.platform
          /\ IF r.raised
             THEN pc' = "raised" /\ exit_code' = <<1>> /\ UNCHANGED idx
             ELSE pc' = "loop" /\ idx' = idx + 1 /\ UNCHANGED exit_code
    /\ UNCHANGED <<JIRA_EMAIL, JIRA_API_TOKEN, network, replies, all_issues,
                   next_page_token, issues, data_json, writes>>

\* the loop is over: the debug lines, and the matrix returned
BuildReturn ==
    /\ pc = "loop"
    /\ idx = Len(issues)
    /\ pc' = "built"
    /\ UNCHANGED <<JIRA_EMAIL, JIRA_API_TOKEN, network, replies, all_issues,
                   next_page_token, issues, matrix, unmatched_platforms, idx,
                   platform, data_json, writes, exit_code>>

\* main writes data.json and ends
WriteSnapshot ==
    /\ pc = "built"
    /\ data_json' = Output(matrix, issues)
    /\ writes' = writes + 1
    /\ pc' = "done"
    /\ exit_code' = <<0>>
    /\ UNCHANGED <<JIRA_EMAIL, JIRA_API_TOKEN, network, replies, all_issues,
                   next_page_token, issues, matrix, unmatched_platforms, idx,
                   platform>>

\* detect_platform called on one issue
Classify ==
    /\ pc = "detect"
    /\ LET r == detect_platform(issues[1])
       IN IF r.raised
          THEN pc' = "raised" /\ UNCHANGED platform
          ELSE pc' = "detected" /\ platform' = r.value
    /\ UNCHANGED <<JIRA_EMAIL, JIRA_API_TOKEN, network, replies, all_issues,
                   next_page_token, issues, matrix, unmatched_platforms, idx,
                   data_json, writes, exit_code>>

(***************************************************************************)
(* The specifications.                                                     *)
(***************************************************************************)
\* exit_code while the process runs; <<n>> once it has ended with code n
Running == <<>>

\* what no run has touched yet
Untouched ==
    /\ matrix = <<>>
    /\ unmatched_platforms = 0
    /\ idx = 0
    /\ platform = None
    /\ data_json = OldSnapshot
    /\ writes = 0
    /\ exit_code = Running

\* the process starts, with any environment
Init ==
    /\ JIRA_EMAIL \in {"", "bot@example.com"}
    /\ JIRA_API_TOKEN \in {"", "secret"}
    /\ pc = "main"
    /\ network = <<>>
    /\ replies = <<>>
    /\ all_issues = <<>>
    /\ next_page_token = None
    /\ issues = <<>>
    /\ Untouched

Next ==
    \/ Main
    \/ ListProjects
    \/ FetchStart
    \/ FetchPage
    \/ BuildInit
    \/ BuildStep
    \/ BuildReturn
    \/ WriteSnapshot

Spec == Init /\ [][Next]_vars

\* main after fetch_jira_data returned input, all of it in one page
Fetched(input) ==
    /\ JIRA_EMAIL = "bot@example.com"
    /\ JIRA_API_TOKEN = "secret"
    /\ pc = "build"
    /\ network = <<ProjectRequest, SearchRequest(None)>>
    /\ replies = <<Reply(200, TRUE, List(input), None)>>
    /\ all_issues = input
    /\ next_page_token = None
    /\ issues = input
    /\ Untouched

InitAgg == \E input \in BoundedSeq(AggIssues, MaxIssues) : Fetched(input)

NextAgg ==
    \/ BuildInit
    \/ BuildStep
    \/ BuildReturn
    \/ WriteSnapshot

SpecAgg == InitAgg /\ [][NextAgg]_vars

\* inputs long enough for one more unmatched bug than the examples printed
InitPerm ==
    \E input \in BoundedSeq(Range(PermIssues), UnmatchedLogLimit + 1) : Fetched(input)

SpecPerm == InitPerm /\ [][NextAgg]_vars

\* detect_platform alone, on one issue
InitClassify ==
    /\ JIRA_EMAIL = "bot@example.com"
    /\ JIRA_API_TOKEN = "secret"
    /\ pc = "detect"
    /\ network = <<>>
    /\ replies = <<>>
    /\ all_issues = <<>>
    /\ next_page_token = None
    /\ issues \in {<<x>> : x \in ClassifyIssues}
    /\ Untouched

NextClassify == Classify

SpecClassify == InitClassify /\ [][NextClassify]_vars

(***************************************************************************)
(* Notions the properties are stated with.                                 *)
(***************************************************************************)
RECURSIVE SumSeq(_)
SumSeq(ns) == IF Len(ns) = 0 THEN 0 ELSE Head(ns) + SumSeq(Tail(ns))

\* the sum of all the cells of a matrix
CellSum(m) ==
    SumSeq([i \in 1..Len(PLATFORMS) |->
               SumSeq([j \in 1..Len(STATUSES) |-> m[PLATFORMS[i]][STATUSES[j]]])])

\* the issue type, upper-cased, is BUG
TypeIsBug(issue) ==
    LET t == NameField(FieldsOf(issue).issuetype)
    IN t.tag = "str" /\ Upper(t.v) = "BUG"

\* the status, upper-cased
StatusUpper(issue) == Upper(NameField(FieldsOf(issue).status).v)

\* the indices of s that satisfy Test
Where(s, Test(_)) == {i \in 1..Len(s) : Test(s[i])}

\* what detect_platform returns on each issue of the aggregation runs, and
\* the upper-cased status of each
PlatformOf == [x \in AggIssues |-> detect_platform(x).value]
StatusOf == [x \in AggIssues |-> StatusUpper(x)]

\* a BUG issue that has a platform and a tracked status
Countable(issue) ==
    /\ TypeIsBug(issue)
    /\ PlatformOf[issue] # None
    /\ StatusOf[issue] \in Range(STATUSES)

\* a BUG issue for which detect_platform returns None
Unmatched(issue) == TypeIsBug(issue) /\ PlatformOf[issue] = None

\* a BUG issue that has a platform, in a status outside STATUSES
MatchedUntracked(issue) ==
    /\ TypeIsBug(issue)
    /\ PlatformOf[issue] # None
    /\ StatusOf[issue] \notin Range(STATUSES)

\* the issues whose iteration has completed
Processed == SubSeq(issues, 1, idx)

\* the aggregation loop has started
InLoop == pc \in {"loop", "built", "done", "raised"}

\* the search requests sent so far
Searches == SelectSeq(network, LAMBDA r : r.path # ProjectRequest.path)

\* a response with a success status and a JSON body
Success(reply) == reply.status \in 200..299 /\ reply.json_ok

\* a response after which the claim has the loop stop
Stops(reply) == reply.nextPageToken \in {None, ""} \/ Len(PageOf(reply)) = 0

RECURSIVE Concat(_)
Concat(pages) == IF Len(pages) = 0 THEN <<>> ELSE Head(pages) \o Concat(Tail(pages))

\* the pages of all the responses, in the order received
AllPages == Concat([i \in 1..Len(replies) |-> PageOf(replies[i])])

(***************************************************************************)
(* C1: count conservation. At every point of the aggregation the cell      *)
(* (p, s) holds the number of processed BUG issues with platform p and     *)
(* tracked status s, so issues of another type change no cell; the sum of  *)
(* the cells is at most the number of BUG issues, and equals it exactly    *)
(* when every BUG issue has a platform and a tracked status.               *)
(***************************************************************************)
C1_CountConservation ==
    InLoop =>
      /\ \A p \in Range(PLATFORMS), s \in Range(STATUSES) :
            matrix[p][s] =
              Cardinality({i \in Where(Processed, TypeIsBug) :
                              /\ PlatformOf[Processed[i]] = p
                              /\ StatusOf[Processed[i]] = s})
      /\ CellSum(matrix) <= Cardinality(Where(Processed, TypeIsBug))
      /\ (CellSum(matrix) = Cardinality(Where(Processed, TypeIsBug)))
           <=> (\A i \in Where(Processed, TypeIsBug) : Countable(Processed[i]))

\* a finished aggregation with two BUG issues, one of them counted, and a
\* Task that has a platform and a tracked status
C1_Witness ==
    /\ pc = "built"
    /\ issues = <<BugWebosOpen, TaskWebOpen, BugAtvDone>>
    /\ CellSum(matrix) = 1

(***************************************************************************)
(* C2: matrix shape. From the initialisation on, the keys of the matrix    *)
(* are exactly PLATFORMS, the keys of every row exactly STATUSES, every    *)
(* cell a natural number, and detect_platform returns None or a member of  *)
(* PLATFORMS; for empty input every cell is 0, in the matrix and in the    *)
(* snapshot written, and total_issues_fetched is 0.                        *)
(***************************************************************************)
C2_MatrixShape ==
    /\ platform \in Range(PLATFORMS) \cup {None}
    /\ InLoop =>
         /\ DOMAIN matrix = Range(PLATFORMS)
         /\ \A p \in DOMAIN matrix :
               /\ DOMAIN matrix[p] = Range(STATUSES)
               /\ \A s \in DOMAIN matrix[p] : matrix[p][s] \in Nat
         /\ Cardinality(DOMAIN matrix) = Len(PLATFORMS)
    /\ (InLoop /\ issues = <<>>) =>
         \A p \in Range(PLATFORMS), s \in Range(STATUSES) : matrix[p][s] = 0
    /\ pc = "done" =>
         /\ DOMAIN data_json.data = Range(PLATFORMS)
         /\ \A p \in Range(PLATFORMS) : DOMAIN data_json.data[p] = Range(STATUSES)
         /\ data_json.total_issues_fetched = Len(issues)
         /\ issues = <<>> =>
              /\ data_json.total_issues_fetched = 0
              /\ \A p \in Range(PLATFORMS), s \in Range(STATUSES) :
                    data_json.data[p][s] = 0

\* the snapshot of a run that fetched nothing
C2_Witness == pc = "done" /\ issues = <<>> /\ data_json.data = matrix

(***************************************************************************)
(* C3: ordered first match. detect_platform returns the platform of the   *)
(* first rule, in the order CMS Adaptor, CMS Dashboard, DishIT, LG_TV,     *)
(* SAM_TV, ATV, ANDROID, IOS, WEB, one of whose patterns occurs in the     *)
(* search string, and None exactly when no pattern occurs; the label       *)
(* WEBOS alone gives LG_TV and the label Android TV alone gives ATV.       *)
(***************************************************************************)
ClaimedOrder ==
    <<"CMS Adaptor", "CMS Dashboard", "DishIT", "LG_TV", "SAM_TV", "ATV", "ANDROID",
      "IOS", "WEB">>

\* the patterns the table gives for platform p
PatternsFor(p) ==
    (CHOOSE rule \in Range(platform_patterns) : rule.platform = p).patterns

\* the positions in the claimed order of the rules with a pattern in text
Hits(text) ==
    {k \in 1..Len(ClaimedOrder) :
        \E pattern \in Range(PatternsFor(ClaimedOrder[k])) : Contains(pattern, text)}

\* an issue whose only signal is one label
OnlyLabel(label) ==
    Fields(Named(Str("Open")), Named(Str("Bug")), List(<<Str(label)>>), Missing,
           Missing, <<>>)

\* C3: what detect_platform returned is the first match in the claimed order
C3_FirstMatch ==
    pc = "detected" =>
      LET hits == Hits(all_text(issues[1]))
      IN /\ (platform = None) <=> (hits = {})
         /\ hits # {} =>
              platform = ClaimedOrder[CHOOSE k \in hits : \A j \in hits : k <= j]
         /\ issues[1] = OnlyLabel("WEBOS") => platform = "LG_TV"
         /\ issues[1] = OnlyLabel("Android TV") => platform = "ATV"

\* the label WEBOS alone: the patterns of LG_TV and of WEB both occur
C3_Witness ==
    /\ pc = "detected"
    /\ issues[1] = OnlyLabel("WEBOS")
    /\ Contains("WEB", all_text(issues[1]))
    /\ platform = "LG_TV"

(***************************************************************************)
(* C4: pagination. The first search request carries no token and every     *)
(* later one the token of the response before it; a request follows a      *)
(* response only when that response succeeded with a token and at least    *)
(* one issue; after the first successful response without a token or       *)
(* without issues the loop has ended and main holds the pages of all the   *)
(* responses, concatenated in order. So a non-empty page with a token      *)
(* followed by an empty page, or by a page without a token, takes exactly  *)
(* two requests.                                                           *)
(***************************************************************************)
C4_Pagination ==
    /\ Len(Searches) = Len(replies)
    /\ \A i \in 1..Len(Searches) :
          Searches[i].nextPageToken =
            IF i = 1 THEN Absent ELSE replies[i - 1].nextPageToken
    /\ \A i \in 1..(Len(replies) - 1) : Success(replies[i]) /\ ~Stops(replies[i])
    /\ \A i \in 1..Len(replies) :
          (Success(replies[i]) /\ Stops(replies[i])) =>
            /\ i = Len(replies)
            /\ pc \notin {"fetch", "page"}
            /\ issues = AllPages
    /\ ( /\ Len(replies) >= 2
         /\ Success(replies[1]) /\ ~Stops(replies[1])
         /\ Success(replies[2]) /\ Stops(replies[2]) ) =>
            /\ Len(Searches) = 2
            /\ issues = PageOf(replies[1]) \o PageOf(replies[2])

\* a page with a token, then an empty page that carries a token too
C4_Witness ==
    /\ Len(replies) = 2
    /\ PageOf(replies[1]) = <<BugWebosOpen>>
    /\ replies[2] = Reply(200, TRUE, List(<<>>), "t2")
    /\ pc = "build"
    /\ issues = <<BugWebosOpen>>

(***************************************************************************)
(* C5 as claimed: the first search request is a probe for one result, and  *)
(* a non-success answer to it does not fail the run.                       *)
(***************************************************************************)
C5_ProbeThenCommit ==
    /\ Len(Searches) >= 1 => Searches[1].maxResults = 1
    /\ (Len(replies) >= 1 /\ ~Success(replies[1])) => pc # "raised"

(***************************************************************************)
(* C5 as amended: there is no probe and no fallback. Every search request  *)
(* of a run is a POST to the cursor endpoint /rest/api/3/search/jql for    *)
(* PageSize results, the first one included, and a non-success answer to   *)
(* any of them, the first one included, ends the run with an error.        *)
(***************************************************************************)
C5_CursorOnly ==
    /\ \A i \in 1..Len(Searches) :
          /\ Searches[i].method = "POST"
          /\ Searches[i].path = "/rest/api/3/search/jql"
          /\ Searches[i].maxResults = PageSize
    /\ \A i \in 1..Len(replies) :
          ~Success(replies[i]) =>
            /\ i = Len(replies)
            /\ pc = "raised"
            /\ exit_code = <<1>>

\* the first search request is answered 401: the run fails after that one
\* full-size request to the cursor endpoint
C5_Witness ==
    /\ Len(replies) = 1
    /\ replies[1].status = 401
    /\ Searches = <<SearchRequest(None)>>
    /\ Searches[1].maxResults = PageSize
    /\ pc = "raised"

(***************************************************************************)
(* C6: no partial snapshot. data.json is written at most once, by the last *)
(* step of the run, after every search request succeeded and the           *)
(* aggregation of all the fetched issues completed; until then it is the   *)
(* previous snapshot. After a non-success answer to any search request the *)
(* run has failed: main received no issues, nothing was aggregated,        *)
(* nothing written.                                                        *)
(***************************************************************************)
C6_NoPartialSnapshot ==
    /\ writes <= 1
    /\ writes = 0 => data_json = OldSnapshot
    /\ writes = 1 =>
         /\ pc = "done"
         /\ \A i \in 1..Len(replies) : Success(replies[i])
         /\ issues = AllPages
         /\ idx = Len(issues)
         /\ data_json = Output(matrix, issues)
    /\ pc = "done" => ~ENABLED Next
    /\ (\E i \in 1..Len(replies) : ~Success(replies[i])) =>
         /\ pc = "raised"
         /\ issues = <<>>
         /\ matrix = <<>>
         /\ writes = 0
         /\ data_json = OldSnapshot

\* the second page request fails after a first page was accumulated
C6_Witness ==
    /\ Len(replies) = 2
    /\ replies[2].status = 500
    /\ all_issues = <<BugWebosOpen>>
    /\ pc = "raised"
    /\ data_json = OldSnapshot

(***************************************************************************)
(* C7: a configuration error precedes all I/O. With JIRA_EMAIL or          *)
(* JIRA_API_TOKEN empty the run sends no request and writes nothing: its   *)
(* only step is the exit with code 1.                                      *)
(***************************************************************************)
C7_ConfigErrorFirst ==
    (JIRA_EMAIL = "" \/ JIRA_API_TOKEN = "") =>
      /\ network = <<>>
      /\ replies = <<>>
      /\ writes = 0
      /\ data_json = OldSnapshot
      /\ pc \in {"main", "exited"}
      /\ pc = "exited" => (exit_code = <<1>> /\ ~ENABLED Next)

\* the token alone is missing, and the run has exited
C7_Witness ==
    /\ JIRA_EMAIL # ""
    /\ JIRA_API_TOKEN = ""
    /\ pc = "exited"
    /\ exit_code = <<1>>

(***************************************************************************)
(* C8 as claimed: the aggregation of issues with missing, empty or null    *)
(* fields never raises, and a BUG issue with a null summary and no         *)
(* platform is tallied as unmatched and nothing else.                      *)
(***************************************************************************)
C8_NeverRaises ==
    /\ pc # "raised"
    /\ (pc = "built" /\ issues = <<BugNullSummary>>) =>
         (unmatched_platforms = 1 /\ matrix = ZeroMatrix)

(***************************************************************************)
(* C9 as claimed: the aggregation of a sequence ends as the aggregation of *)
(* any permutation of it does, with the same matrix and the same count of  *)
(* unmatched platforms. Every sequence is compared with the permutation    *)
(* of it that lists the issues in the order of PermIssues.                 *)
(***************************************************************************)
Count(s, x) == Cardinality({i \in 1..Len(s) : s[i] = x})

RECURSIVE Repeat(_, _)
Repeat(x, n) == IF n = 0 THEN <<>> ELSE <<x>> \o Repeat(x, n - 1)

\* the permutation of s that lists its issues in the order of PermIssues
Sorted(s) ==
    Concat([k \in 1..Len(PermIssues) |-> Repeat(PermIssues[k], Count(s, PermIssues[k]))])

\* C9: the run ends as the run on the sorted permutation of its input does
C9_OrderIndependent ==
    pc \in {"built", "raised"} =>
      LET other == RunLoop(ZeroMatrix, 0, Sorted(issues))
      IN /\ other.raised <=> pc = "raised"
         /\ pc = "built" =>
              /\ other.matrix = matrix
              /\ other.unmatched = unmatched_platforms

(***************************************************************************)
(* C10 as claimed: the counters of the aggregation account for every BUG   *)
(* issue, each issue adding one to exactly one of them. The counters the   *)
(* code keeps are the cells and unmatched_platforms.                       *)
(***************************************************************************)
C10_EveryBugCounted ==
    pc \in {"loop", "built", "done"} =>
      CellSum(matrix) + unmatched_platforms = Cardinality(Where(Processed, TypeIsBug))

(***************************************************************************)
(* C10 as amended: there is no counter for a platform matched with an      *)
(* untracked status. An iteration that completes on a BUG issue adds one   *)
(* to a single cell (platform matched, status tracked), or adds one to     *)
(* unmatched_platforms and leaves the matrix alone (no platform), or       *)
(* changes nothing (platform matched, status untracked); an iteration on   *)
(* another type changes nothing. So the cells and unmatched_platforms sum  *)
(* to the number of BUG issues less those matched with an untracked        *)
(* status.                                                                 *)
(***************************************************************************)
\* the cells of m2 are those of m1, but for one that is one more
OneCellUp(m1, m2) ==
    \E p \in Range(PLATFORMS), s \in Range(STATUSES) : m2 = [m1 EXCEPT ![p][s] = @ + 1]

\* what one completed iteration does to the two counters
C10_StepAccounting ==
    (pc = "loop" /\ pc' = "loop" /\ idx' = idx + 1) =>
      LET issue == issues[idx + 1]
      IN /\ Countable(issue) =>
              /\ OneCellUp(matrix, matrix')
              /\ unmatched_platforms' = unmatched_platforms
         /\ Unmatched(issue) =>
              /\ matrix' = matrix
              /\ unmatched_platforms' = unmatched_platforms + 1
         /\ (MatchedUntracked(issue) \/ ~TypeIsBug(issue)) =>
              /\ matrix' = matrix
              /\ unmatched_platforms' = unmatched_platforms

\* C10 as amended: the two counters account for every BUG issue but those
\* matched with an untracked status, and every completed iteration changes
\* them as the issue's case requires
C10_TwoCounters ==
    /\ [](pc \in {"loop", "built", "done"} =>
            CellSum(matrix) + unmatched_platforms
              = Cardinality(Where(Processed, TypeIsBug))
                  - Cardinality(Where(Processed, MatchedUntracked)))
    /\ [][C10_StepAccounting]_vars

\* a finished aggregation with a BUG issue that no counter holds
C10_Witness ==
    /\ pc = "built"
    /\ issues = <<BugAtvDone, BugUnknownDevice, BugWebosOpen>>
    /\ CellSum(matrix) = 1
    /\ unmatched_platforms = 1

====
